---- MODULE Spec2Model ----
(***************************************************************************)
(* A model of the GIF header decoder of src/src/main.rs: Gif::from_file    *)
(* and the three decoders it sequences (parse_version,                     *)
(* parse_logical_screen_descriptor, parse_global_color_table).             *)
(*                                                                         *)
(* Bytes are the integers 0..255.  A Rust Option is a sequence of length   *)
(* at most one (None == <<>>, Some(v) == <<v>>).  A call's outcome is a    *)
(* record with a tag: "Ok" (a value), "Err" (a GifError) or "Panic" (the   *)
(* thread unwinds: an unwrap of an Err, an index out of bounds, an         *)
(* arithmetic overflow in a build with overflow checks).                   *)
(***************************************************************************)
EXTENDS Integers, Sequences, FiniteSets, TLC

VARIABLES
    file,                \* the bytes of the opened File
    pos,                 \* the File's cursor: bytes consumed so far
    pc,                  \* the position inside from_file (or of a decoder call)
    buffer,              \* the buffer of the current read / the decoder's argument
    version,             \* from_file's local `version` (an Option while unset)
    lsd,                 \* from_file's local `lsd` (an Option while unset)
    global_color_table,  \* from_file's local `global_color_table`
    reads,               \* history: the reads issued on the byte source, in order
    result               \* what the call returned (None while it runs)

vars == <<file, pos, pc, buffer, version, lsd, global_color_table, reads, result>>

----------------------------------------------------------------------------
(* Bounds of the model.                                                    *)

\* bytes that follow the header region in an input file
MaxTrail == 2
\* longest table of arbitrary bytes handed to the color table decoder alone
MaxTableLen == 6
\* distinct byte patterns used to fill a color table
MaxSeed == 1

----------------------------------------------------------------------------
(* Values.                                                                 *)

None == <<>>
Some(v) == <<v>>

Ok(v) == [tag |-> "Ok", val |-> Some(v), err |-> None]
Err(e) == [tag |-> "Err", val |-> None, err |-> Some(e)]
Panic(kind, info) ==
    [tag |-> "Panic", val |-> None, err |-> Some([kind |-> kind, text |-> info])]

\* enum GifError
Io == [kind |-> "Io", text |-> <<>>]
InvalidGifFile == [kind |-> "InvalidGifFile", text |-> <<>>]
UnsupportedVersion(text) == [kind |-> "UnsupportedVersion", text |-> text]

Min(a, b) == IF a < b THEN a ELSE b

\* a & b on unsigned integers, bit by bit
RECURSIVE BitAnd(_, _)
BitAnd(a, b) ==
    IF a = 0 \/ b = 0 THEN 0
    ELSE (IF a % 2 = 1 /\ b % 2 = 1 THEN 1 ELSE 0) + 2 * BitAnd(a \div 2, b \div 2)

----------------------------------------------------------------------------
(* str::from_utf8(..).unwrap(): Ok exactly for well-formed UTF-8.          *)

IsCont(b) == b \in 128..191

RECURSIVE Utf8Valid(_)
Utf8Valid(s) ==
    IF s = <<>> THEN TRUE
    ELSE LET b == s[1]
             n == Len(s)
         IN IF b < 128 THEN Utf8Valid(Tail(s))
            ELSE IF b \in 194..223
                 THEN n >= 2 /\ IsCont(s[2]) /\ Utf8Valid(SubSeq(s, 3, n))
            ELSE IF b \in 224..239
                 THEN /\ n >= 3
                      /\ s[2] \in (IF b = 224 THEN 160..191
                                   ELSE IF b = 237 THEN 128..159 ELSE 128..191)
                      /\ IsCont(s[3])
                      /\ Utf8Valid(SubSeq(s, 4, n))
            ELSE IF b \in 240..244
                 THEN /\ n >= 4
                      /\ s[2] \in (IF b = 240 THEN 144..191
                                   ELSE IF b = 244 THEN 128..143 ELSE 128..191)
                      /\ IsCont(s[3])
                      /\ IsCont(s[4])
                      /\ Utf8Valid(SubSeq(s, 5, n))
            ELSE FALSE

----------------------------------------------------------------------------
(* Gif::parse_version                                                      *)

GIF == <<71, 73, 70>>
Text87a == <<56, 55, 97>>
Text89a == <<56, 57, 97>>

ParseVersion(bytes) ==
    LET sig == SubSeq(bytes, 1, 3)
        ver == SubSeq(bytes, 4, 6)
    IN IF ~Utf8Valid(sig) THEN Panic("unwrap Utf8Error", <<>>)
       ELSE IF sig # GIF THEN Err(InvalidGifFile)
       ELSE IF ~Utf8Valid(ver) THEN Panic("unwrap Utf8Error", <<>>)
       ELSE IF ver = Text87a THEN Ok("V87a")
       ELSE IF ver = Text89a THEN Ok("V89a")
       ELSE Err(UnsupportedVersion(ver))

----------------------------------------------------------------------------
(* Gif::parse_logical_screen_descriptor.  Each field operator gives the    *)
(* mathematical value of the Rust expression; the decoder panics when one  *)
(* of them leaves its integer type (overflow checks on).                   *)

\* u16 << n keeps the low 16 bits
U16Shl(a, n) == (a * 2^n) % 65536

\* ((bytes[1] as u16) * 1u16 << 8u16) + (bytes[0] as u16)
WidthSwapped(bytes) == U16Shl(bytes[1] * 1, 8) + bytes[2]
Width(bytes) == U16Shl(bytes[2] * 1, 8) + bytes[1]

\* ((bytes[3] as u16) * 1u16 << 8u16) + (bytes[2] as u16)
Height(bytes) == U16Shl(bytes[4] * 1, 8) + bytes[3]

\* (packed_fields & 0b10000000) == 0b10000000
HasGlobalColorTable(packed) == BitAnd(packed, 128) = 128

\* (packed_fields & 0b00001000) == 0b00001000
IsGlobalColorTableSorted(packed) == BitAnd(packed, 8) = 8

\* (bytes[4] & 0b01110000) + 1u8
ColorResolution(packed) == BitAnd(packed, 112) + 1

\* 3 * ((bytes[4] & 0b00000111) + 1u8).pow(2)
GlobalColorTableSizePow2(packed) == 3 * 2^(BitAnd(packed, 7) + 1)
GlobalColorTableSize(packed) ==
    LET base == BitAnd(packed, 7) + 1 IN 3 * (base * base)

\* match has_global_color_table { true => Some(bytes[5]), _ => None }
BackgroundColorIndexAlways(bytes) == Some(bytes[6])
BackgroundColorIndex(bytes) ==
    IF HasGlobalColorTable(bytes[5]) THEN Some(bytes[6]) ELSE None

\* an intermediate value of the decoder that does not fit its type
LsdOverflows(bytes) ==
    LET base == BitAnd(bytes[5], 7) + 1
    IN \/ bytes[2] * 1 > 65535
       \/ bytes[4] * 1 > 65535
       \/ Width(bytes) > 65535
       \/ Height(bytes) > 65535
       \/ ColorResolution(bytes[5]) > 255
       \/ base > 255
       \/ base * base > 255
       \/ GlobalColorTableSize(bytes[5]) > 255

ParseLogicalScreenDescriptor(bytes) ==
    IF LsdOverflows(bytes) THEN Panic("arithmetic overflow", <<>>)
    ELSE Ok([width |-> Width(bytes),
             height |-> Height(bytes),
             has_global_color_table |-> HasGlobalColorTable(bytes[5]),
             color_resolution |-> ColorResolution(bytes[5]),
             is_global_color_table_sorted |-> IsGlobalColorTableSorted(bytes[5]),
             background_color_index |-> BackgroundColorIndex(bytes),
             global_color_table_size |-> GlobalColorTableSize(bytes[5]),
             pixel_aspect_ratio |-> bytes[7]])

----------------------------------------------------------------------------
(* Gif::parse_global_color_table.  The loop runs its body for the 0-based  *)
(* indices i = 0, 3, 6, .. while i < table.len().  The body's indexings    *)
(* table[i], table[i + 1], table[i + 2] are bounds-checked: the first one  *)
(* that is not below table.len() panics, in the first iteration that has   *)
(* one.  Otherwise every iteration pushes one Color, in order.             *)

SetMin(S) == CHOOSE x \in S : \A y \in S : x <= y

\* the values `i` takes while `i < table.len()` holds
LoopIndices(table) == {i \in 0..(Len(table) - 1) : i % 3 = 0}

\* the indexings of iteration i that are out of bounds
OutOfBounds(table, i) == {x \in {i, i + 1, i + 2} : x >= Len(table)}

\* Color { red: table[i], green: table[i + 1], blue: table[i + 2] }
Color(table, i) ==
    [red |-> table[i + 1], green |-> table[i + 2], blue |-> table[i + 3]]

ParseGlobalColorTable(table) ==
    LET faulting == {i \in LoopIndices(table) : OutOfBounds(table, i) # {}}
    IN IF faulting # {}
       THEN Panic("index out of bounds",
                  <<SetMin(OutOfBounds(table, SetMin(faulting))), Len(table)>>)
       ELSE Ok([j \in 1..Cardinality(LoopIndices(table)) |-> Color(table, 3 * (j - 1))])

----------------------------------------------------------------------------
(* The byte source: File::read(&mut buf) on a regular file copies          *)
(* min(buf.len(), bytes left) bytes to the front of the zero-initialised   *)
(* buffer and advances the cursor by that count, or fails with an          *)
(* io::Error.  File::read_to_end consumes every byte left.                 *)

Available(n) == Min(n, Len(file) - pos)

Zeros(n) == [i \in 1..n |-> 0]

ReadInto(n) ==
    SubSeq(file, pos + 1, pos + Available(n)) \o Zeros(n - Available(n))

ReadEntry(stage, n, ok) ==
    [stage |-> stage,
     len |-> n,
     got |-> IF ok THEN Available(n) ELSE 0,
     ok |-> ok,
     data |-> IF ok THEN ReadInto(n) ELSE <<>>]

----------------------------------------------------------------------------
(* Gif::from_file, one action per statement.                               *)

\* let mut buffer = [0; 6]; try!(f.read(&mut buffer).map_err(..));
ReadHeader ==
    /\ pc = "read_header"
    /\ \/ /\ buffer' = ReadInto(6)
          /\ pos' = pos + Available(6)
          /\ reads' = Append(reads, ReadEntry("header", 6, TRUE))
          /\ pc' = "parse_version"
          /\ UNCHANGED result
       \/ /\ reads' = Append(reads, ReadEntry("header", 6, FALSE))
          /\ result' = Err(Io)
          /\ pc' = "done"
          /\ UNCHANGED <<buffer, pos>>
    /\ UNCHANGED <<file, version, lsd, global_color_table>>

\* let version = try!(Gif::parse_version(&buffer));
DecodeVersion ==
    /\ pc = "parse_version"
    /\ LET r == ParseVersion(buffer)
       IN IF r.tag = "Ok"
          THEN /\ version' = r.val
               /\ pc' = "read_lsd"
               /\ UNCHANGED result
          ELSE /\ result' = r
               /\ pc' = "done"
               /\ UNCHANGED version
    /\ UNCHANGED <<file, pos, buffer, lsd, global_color_table, reads>>

\* let mut buffer = [0; 7]; try!(f.read(&mut buffer).map_err(..));
ReadLsd ==
    /\ pc = "read_lsd"
    /\ \/ /\ buffer' = ReadInto(7)
          /\ pos' = pos + Available(7)
          /\ reads' = Append(reads, ReadEntry("lsd", 7, TRUE))
          /\ pc' = "parse_lsd"
          /\ UNCHANGED result
       \/ /\ reads' = Append(reads, ReadEntry("lsd", 7, FALSE))
          /\ result' = Err(Io)
          /\ pc' = "done"
          /\ UNCHANGED <<buffer, pos>>
    /\ UNCHANGED <<file, version, lsd, global_color_table>>

\* let lsd = try!(Gif::parse_logical_screen_descriptor(&buffer));
DecodeLsd ==
    /\ pc = "parse_lsd"
    /\ LET r == ParseLogicalScreenDescriptor(buffer)
       IN IF r.tag = "Ok"
          THEN /\ lsd' = r.val
               /\ pc' = "color_table"
               /\ UNCHANGED result
          ELSE /\ result' = r
               /\ pc' = "done"
               /\ UNCHANGED lsd
    /\ UNCHANGED <<file, pos, buffer, version, global_color_table, reads>>

\* true => { let mut buffer = vec![0; size]; try!(f.read(..)); Some(parse(&buffer)) }
ReadColorTable ==
    /\ pc = "color_table"
    /\ lsd[1].has_global_color_table
    /\ LET n == lsd[1].global_color_table_size
       IN \/ /\ buffer' = ReadInto(n)
             /\ pos' = pos + Available(n)
             /\ reads' = Append(reads, ReadEntry("color_table", n, TRUE))
             /\ LET r == ParseGlobalColorTable(buffer')
                IN IF r.tag = "Ok"
                   THEN /\ global_color_table' = Some(r.val[1])
                        /\ pc' = "read_to_end"
                        /\ UNCHANGED result
                   ELSE /\ result' = r
                        /\ pc' = "done"
                        /\ UNCHANGED global_color_table
          \/ /\ reads' = Append(reads, ReadEntry("color_table", n, FALSE))
             /\ result' = Err(Io)
             /\ pc' = "done"
             /\ UNCHANGED <<buffer, pos, global_color_table>>
    /\ UNCHANGED <<file, version, lsd>>

\* _ => None
SkipColorTable ==
    /\ pc = "color_table"
    /\ ~lsd[1].has_global_color_table
    /\ global_color_table' = None
    /\ pc' = "read_to_end"
    /\ UNCHANGED <<file, pos, buffer, version, lsd, reads, result>>

\* try!(f.read_to_end(&mut bytes).map_err(..)); return Ok(Gif { .. });
ReadToEnd ==
    /\ pc = "read_to_end"
    /\ \/ /\ pos' = Len(file)
          /\ reads' = Append(reads, [stage |-> "read_to_end",
                                     len |-> Len(file) - pos,
                                     got |-> Len(file) - pos,
                                     ok |-> TRUE,
                                     data |-> SubSeq(file, pos + 1, Len(file))])
          /\ result' = Ok([version |-> version[1],
                           lsd |-> lsd[1],
                           global_color_table |-> global_color_table])
          /\ pc' = "done"
       \/ /\ reads' = Append(reads, [stage |-> "read_to_end", len |-> 0, got |-> 0,
                                     ok |-> FALSE, data |-> <<>>])
          /\ result' = Err(Io)
          /\ pc' = "done"
          /\ UNCHANGED pos
    /\ UNCHANGED <<file, buffer, version, lsd, global_color_table>>

Next ==
    \/ ReadHeader
    \/ DecodeVersion
    \/ ReadLsd
    \/ DecodeLsd
    \/ ReadColorTable
    \/ SkipColorTable
    \/ ReadToEnd

----------------------------------------------------------------------------
(* Input files: a signature, a logical screen descriptor and a run of      *)
(* patterned bytes (color table and whatever follows it), cut at a length  *)
(* that may fall inside any of the three regions.                          *)

Signatures ==
    { <<71, 73, 70, 56, 57, 97>>,      \* "GIF89a"
      <<71, 73, 70, 56, 55, 97>>,      \* "GIF87a"
      <<71, 73, 70, 56, 56, 120>>,     \* "GIF88x"
      <<88, 73, 70, 56, 57, 97>>,      \* "XIF89a"
      <<255, 73, 70, 56, 57, 97>>,     \* not UTF-8 in the signature
      <<71, 73, 70, 255, 57, 97>> }    \* not UTF-8 in the version

Dimensions == { <<10, 0, 10, 0>>, <<255, 255, 1, 2>> }

PackedBytes == {128 + k : k \in 0..7} \cup {0, 7, 112, 248, 255}

PatternByte(seed, i) == (seed * 31 + i * 7 + 1) % 256

Pattern(seed, n) == [i \in 1..n |-> PatternByte(seed, i)]

FileLengths ==
    0..(13 + MaxTrail) \cup {13 + 3 * j * j + d : j \in 1..8, d \in (-1)..MaxTrail}

Prefix(s, n) == SubSeq(s, 1, Min(n, Len(s)))

InputFiles ==
    { Prefix(sig \o dim \o <<packed, 5, 49>> \o Pattern(seed, 192 + MaxTrail), n) :
        sig \in Signatures, dim \in Dimensions, packed \in PackedBytes,
        seed \in 0..MaxSeed, n \in FileLengths }

Init ==
    /\ file \in InputFiles
    /\ pos = 0
    /\ pc = "read_header"
    /\ buffer = <<>>
    /\ version = None
    /\ lsd = None
    /\ global_color_table = None
    /\ reads = <<>>
    /\ result = None

Spec == Init /\ [][Next]_vars

----------------------------------------------------------------------------
(* The decoders on their own: the argument is drawn in the initial state   *)
(* and one action applies the decoder to it.                               *)

Idle ==
    /\ file = <<>>
    /\ pos = 0
    /\ version = None
    /\ lsd = None
    /\ global_color_table = None
    /\ reads = <<>>
    /\ result = None

Return(r) ==
    /\ result' = r
    /\ pc' = "returned"
    /\ UNCHANGED <<file, pos, buffer, version, lsd, global_color_table, reads>>

\* parse_version on 6 bytes
VersionInputs ==
    { <<a, b, c, d, e, f>> :
        a \in {71, 88, 255, 195}, b \in {73, 169}, c \in {70, 102, 128},
        d \in {56, 120, 255, 195, 226}, e \in {55, 56, 57, 169, 130},
        f \in {97, 120, 172, 255} }

InitVersion == Idle /\ pc = "call_parse_version" /\ buffer \in VersionInputs

CallParseVersion == pc = "call_parse_version" /\ Return(ParseVersion(buffer))

SpecVersion == InitVersion /\ [][CallParseVersion]_vars

\* parse_logical_screen_descriptor on 7 bytes, every packed byte
LsdInputs ==
    { <<b0, b1, b2, b3, packed, bci, 49>> :
        b0 \in {0, 10, 255}, b1 \in {0, 1, 255}, b2 \in {0, 255}, b3 \in {2, 255},
        packed \in 0..255, bci \in {0, 5} }

InitLsd == Idle /\ pc = "call_parse_lsd" /\ buffer \in LsdInputs

CallParseLsd == pc = "call_parse_lsd" /\ Return(ParseLogicalScreenDescriptor(buffer))

SpecLsd == InitLsd /\ [][CallParseLsd]_vars

\* parse_global_color_table on tables of any length
TableBytes == {0, 7, 255}

RECURSIVE SeqsUpTo(_, _)
SeqsUpTo(S, n) ==
    IF n = 0 THEN {<<>>}
    ELSE LET shorter == SeqsUpTo(S, n - 1)
         IN shorter \cup {Append(s, x) : s \in {t \in shorter : Len(t) = n - 1}, x \in S}

TableInputs ==
    SeqsUpTo(TableBytes, MaxTableLen)
        \cup {Pattern(seed, n) : seed \in 0..MaxSeed, n \in {3 * j * j : j \in 1..8}}
        \cup {Pattern(seed, n) : seed \in 0..MaxSeed, n \in {3 * j * j + 1 : j \in 1..8}}

InitTable == Idle /\ pc = "call_parse_table" /\ buffer \in TableInputs

CallParseTable == pc = "call_parse_table" /\ Return(ParseGlobalColorTable(buffer))

SpecTable == InitTable /\ [][CallParseTable]_vars

----------------------------------------------------------------------------
(* Properties.                                                             *)

Returned == pc = "returned"
Finished == pc = "done"
Parsed == pc = "done" /\ result # None /\ result.tag = "Ok"

\* the 7 bytes the descriptor was decoded from, and the bytes of the table
LsdBytes == reads[2].data
TableBytesRead == reads[3].data
SizeField == LsdBytes[5] % 8
Stages == [i \in 1..Len(reads) |-> reads[i].stage]

\* C1: for a 6-byte input that starts with "GIF", parse_version returns V87a
\* for "87a", V89a for "89a", and for any other last 3 bytes the error
\* UnsupportedVersion carrying exactly those 3 bytes.
C1_VersionOfGif ==
    (Returned /\ SubSeq(buffer, 1, 3) = GIF) =>
        LET ver == SubSeq(buffer, 4, 6)
        IN result = (IF ver = Text87a THEN Ok("V87a")
                     ELSE IF ver = Text89a THEN Ok("V89a")
                     ELSE Err(UnsupportedVersion(ver)))

\* C2: for a 6-byte input that does not start with "GIF", parse_version
\* returns the error InvalidGifFile whatever the other bytes are, bytes that
\* are not UTF-8 included: an error value, never a panic.
C2_NotGifIsInvalid ==
    (Returned /\ SubSeq(buffer, 1, 3) # GIF) => result = Err(InvalidGifFile)

\* C3: for every packed byte p the decoded color_resolution is
\* ((p & 0x70) >> 4) + 1, a value in 1..8.
C3_ColorResolution ==
    Returned =>
        /\ result.tag = "Ok"
        /\ result.val[1].color_resolution = ((buffer[5] \div 16) % 8) + 1
        /\ result.val[1].color_resolution \in 1..8

\* C4: with k the low 3 bits of the packed byte, global_color_table_size is
\* 3*(k+1)^2 and fits 8 bits; the color table decoder, given a buffer of that
\* many bytes, returns (k+1)^2 colors, color j being bytes 3j, 3j+1, 3j+2 of
\* the buffer in that order; so a parsed Gif with a table has
\* global_color_table.len() * 3 = lsd.global_color_table_size.
C4_ColorTableSize ==
    /\ (result # None /\ result.tag = "Panic") =>
            result.err[1].kind # "arithmetic overflow"
    /\ lsd # None =>
        /\ lsd[1].global_color_table_size = 3 * (SizeField + 1) * (SizeField + 1)
        /\ lsd[1].global_color_table_size \in 0..255
    /\ (Parsed /\ result.val[1].global_color_table # None) =>
        LET gif == result.val[1]
            colors == gif.global_color_table[1]
        IN /\ Len(TableBytesRead) = gif.lsd.global_color_table_size
           /\ Len(colors) = (SizeField + 1) * (SizeField + 1)
           /\ Len(colors) * 3 = gif.lsd.global_color_table_size
           /\ \A j \in 1..Len(colors) :
                colors[j] = [red |-> TableBytesRead[3 * j - 2],
                             green |-> TableBytesRead[3 * j - 1],
                             blue |-> TableBytesRead[3 * j]]

\* a parse that returned a Gif with the largest table, read in full
C4_Witness ==
    /\ Parsed
    /\ SizeField = 7
    /\ result.val[1].global_color_table # None
    /\ Len(result.val[1].global_color_table[1]) = 64
    /\ reads[3].got = 192
    /\ result.val[1].global_color_table[1][64].blue = file[13 + 192]

\* C5: a successful parse consumes exactly 6 + 7 + (global_color_table_size
\* if has_global_color_table, else 0) bytes and leaves the source right after
\* the color table: bytes beyond the header region are not consumed.
\* (Stated for the sources that hold the whole header region.)
C5_ConsumesHeaderOnly ==
    (Parsed /\ \A i \in 1..Len(reads) :
                  reads[i].stage # "read_to_end" => reads[i].got = reads[i].len) =>
        pos = 6 + 7 + (IF result.val[1].lsd.has_global_color_table
                       THEN result.val[1].lsd.global_color_table_size
                       ELSE 0)

\* C6: when the source supplies fewer bytes than one of the three header
\* reads asks for (an empty or truncated source included), the parse fails
\* with the I/O error and returns no Gif.
C6_ShortReadIsIoError ==
    (Finished /\ \E i \in 1..Len(reads) :
                    reads[i].stage # "read_to_end" /\ reads[i].got < reads[i].len)
        => result = Err(Io)

\* C7: parse_global_color_table rejects a table whose length is not a
\* multiple of 3 with the error InvalidGifFile, and for no length does it
\* index the table at a position at or beyond its length.
C7_TableLengthChecked ==
    Returned =>
        /\ result.tag # "Panic"
        /\ Len(buffer) % 3 # 0 => result = Err(InvalidGifFile)

\* C8: in a Gif returned by a successful parse, global_color_table is present
\* exactly when has_global_color_table (bit 7 of the packed byte) is true,
\* background_color_index is Some(bytes[5]) when it is true and None when it
\* is false, and with the flag false no color table read is issued.
C8_TablePresence ==
    /\ (lsd # None /\ ~lsd[1].has_global_color_table) =>
            \A i \in 1..Len(reads) : reads[i].stage # "color_table"
    /\ Parsed =>
        LET gif == result.val[1]
        IN /\ gif.lsd.has_global_color_table = (LsdBytes[5] >= 128)
           /\ (gif.global_color_table # None) = gif.lsd.has_global_color_table
           /\ gif.lsd.background_color_index =
                (IF gif.lsd.has_global_color_table THEN Some(LsdBytes[6]) ELSE None)
           /\ gif.lsd.has_global_color_table =
                (\E i \in 1..Len(reads) : reads[i].stage = "color_table")

\* a parse that returned a Gif without a table, from a file with bytes after
\* the descriptor
C8_Witness ==
    /\ Parsed
    /\ ~result.val[1].lsd.has_global_color_table
    /\ result.val[1].global_color_table = None
    /\ result.val[1].lsd.background_color_index = None
    /\ LsdBytes[6] = 5
    /\ Len(file) > 13
    /\ Stages = <<"header", "lsd", "read_to_end">>

\* C9: for every 7-byte input parse_logical_screen_descriptor succeeds, with
\* no arithmetic overflow, and returns width = bytes[0] + 256*bytes[1] and
\* height = bytes[2] + 256*bytes[3] (both in 0..65535),
\* has_global_color_table = bit 7 of bytes[4], is_global_color_table_sorted =
\* bit 3 of bytes[4], pixel_aspect_ratio = bytes[6].
C9_LsdFields ==
    Returned =>
        /\ result.tag = "Ok"
        /\ LET d == result.val[1]
           IN /\ d.width = buffer[1] + 256 * buffer[2]
              /\ d.height = buffer[3] + 256 * buffer[4]
              /\ d.width \in 0..65535
              /\ d.height \in 0..65535
              /\ d.has_global_color_table = ((buffer[5] \div 128) % 2 = 1)
              /\ d.is_global_color_table_sorted = ((buffer[5] \div 8) % 2 = 1)
              /\ d.pixel_aspect_ratio = buffer[7]

\* the decoder returned the largest width, with both flags set
C9_Witness ==
    /\ Returned
    /\ buffer[1] = 255
    /\ buffer[2] = 255
    /\ buffer[5] = 136
    /\ result.tag = "Ok"
    /\ result.val[1].width = 65535
    /\ result.val[1].height = 512
    /\ result.val[1].is_global_color_table_sorted

\* the reads of from_file are issued in the order header, descriptor, color
\* table (with the flag only), rest; the descriptor is read only after the
\* version decoded, and a read that fails is the last one
C10_StagesInOrder ==
    /\ \/ Stages = SubSeq(<<"header", "lsd", "color_table", "read_to_end">>,
                          1, Len(reads))
       \/ Stages = <<"header", "lsd", "read_to_end">>
    /\ Len(reads) >= 2 => (version # None /\ ParseVersion(reads[1].data).tag = "Ok")
    /\ Len(reads) >= 3 => lsd # None
    /\ \A i \in 1..Len(reads) :
         /\ reads[i].stage = "color_table" => lsd[1].has_global_color_table
         /\ ~reads[i].ok => (i = Len(reads) /\ result = Err(Io))
    /\ result # None => pc = "done"

\* C10: from_file runs its stages in the order signature read, version
\* decode, descriptor read, descriptor decode, color table read (with the
\* flag only); when version decoding fails no further read is issued; a
\* stage that fails ends the parse with that stage's error, and no Gif.
C10_FailFast ==
    /\ C10_StagesInOrder
    /\ Finished =>
        /\ result.tag \in {"Ok", "Err"}
        /\ (result.tag = "Err" /\ result.err[1] # Io) =>
                (Len(reads) = 1 /\ result = ParseVersion(reads[1].data))
        /\ result.tag = "Err" => result.val = None

====
